---- MODULE Spec2Model ----
(***************************************************************************)
(* MCP Memory worker: the HTTP handlers of src/src/index.ts over the D1     *)
(* tables `memories` and `emails` (src/unnamed/part_001, the db utilities,  *)
(* and src/src/utils/email.ts) and the Vectorize index.                     *)
(*                                                                         *)
(* Strings are sequences of one-character strings, so that trimming,       *)
(* splitting and concatenation are computed as the code computes them.     *)
(* A JavaScript `undefined` string and the empty string are both <<>>:     *)
(* every use in the modelled code goes through `!x`, `x || y`, `x && y`    *)
(* or `x ?? ''`, which treat the two alike; where the code can tell them   *)
(* apart the value is wrapped in a sequence (<<>> absent, <<v>> present).  *)
(*                                                                         *)
(* Every awaited store call of a handler is one step of the model: it      *)
(* resolves with its effect on the store, or throws with none.  A request  *)
(* slot holds the handler's position; the arrival of a request (parsing    *)
(* and validation of its body, which touch no store) is one step with its  *)
(* first call.  The tables exist (initializeDatabase has run) and are      *)
(* empty in the initial state.  utils/vectorize is not among the sources:  *)
(* the index operations are modelled from the specification's contract.    *)
(***************************************************************************)
EXTENDS Integers, Sequences, FiniteSets, TLC

\* Number of ids uuidv4() can mint in a behaviour.
MaxIds == 2

Users == {"u1", "u2"}

Ids == 1..MaxIds

\* Any id a caller may put in a URL: minted ones and one that is never minted.
UrlIds == 1..MaxIds

(***************************************************************************)
(* String helpers (JavaScript String.prototype).                           *)
(***************************************************************************)
IsSpace(ch) == ch \in {" ", "\n", "\t"}

RECURSIVE TrimStart(_)
TrimStart(s) == IF s # <<>> /\ IsSpace(Head(s)) THEN TrimStart(Tail(s)) ELSE s

RECURSIVE TrimEnd(_)
TrimEnd(s) ==
  IF s # <<>> /\ IsSpace(s[Len(s)]) THEN TrimEnd(SubSeq(s, 1, Len(s) - 1)) ELSE s

\* String.prototype.trim
Trim(s) == TrimEnd(TrimStart(s))

LowerChar(ch) ==
  CASE ch = "A" -> "a"
    [] ch = "B" -> "b"
    [] ch = "C" -> "c"
    [] OTHER -> ch

\* String.prototype.toLowerCase
ToLowerCase(s) == [i \in 1..Len(s) |-> LowerChar(s[i])]

\* String.prototype.split(sep) for a one-character separator.
RECURSIVE SplitFrom(_, _, _)
SplitFrom(s, sep, cur) ==
  IF s = <<>> THEN <<cur>>
  ELSE IF Head(s) = sep THEN <<cur>> \o SplitFrom(Tail(s), sep, <<>>)
  ELSE SplitFrom(Tail(s), sep, Append(cur, Head(s)))

Split(s, sep) == SplitFrom(s, sep, <<>>)

\* Array.prototype.join(sep) over an array of strings.
RECURSIVE Join(_, _)
Join(parts, sep) ==
  IF parts = <<>> THEN <<>>
  ELSE IF Len(parts) = 1 THEN parts[1]
  ELSE parts[1] \o sep \o Join(Tail(parts), sep)

(***************************************************************************)
(* extractCompanyFromEmail: email.match(/@([^>]+)>?$/), then the domain    *)
(* lowercased, split on '.', the first label dropped when more than two    *)
(* remain, and parts[0] returned.  <<>> stands for undefined.              *)
(***************************************************************************)
\* The capture group of /@([^>]+)>?$/ when the match starts at the '@' at i:
\* <<g>> if the rest is g or g">" with g non-empty and free of '>', else <<>>.
GroupAt(s, i) ==
  LET rest == SubSeq(s, i + 1, Len(s))
      g == IF rest # <<>> /\ rest[Len(rest)] = ">"
           THEN SubSeq(rest, 1, Len(rest) - 1) ELSE rest
      plain == \A k \in 1..Len(rest) : rest[k] # ">"
      cut == \A k \in 1..Len(g) : g[k] # ">"
  IN IF s[i] # "@" THEN <<>>
     ELSE IF rest # <<>> /\ plain THEN <<rest>>
     ELSE IF g # <<>> /\ cut THEN <<g>>
     ELSE <<>>

\* A regular expression search returns the leftmost match.
RegexMatch(s) ==
  LET starts == {i \in 1..Len(s) : GroupAt(s, i) # <<>>}
  IN IF starts = {} THEN <<>>
     ELSE GroupAt(s, CHOOSE i \in starts : \A j \in starts : i <= j)

extractCompanyFromEmail(email) ==
  LET match == RegexMatch(email) IN
  IF match = <<>> THEN <<>>
  ELSE LET domain == ToLowerCase(match[1])
           parts == Split(domain, ".")
           kept == IF Len(parts) > 2 THEN Tail(parts) ELSE parts
       IN kept[1]

(***************************************************************************)
(* Request payloads.                                                       *)
(***************************************************************************)
NoEmail == [subject |-> <<>>, body |-> <<>>, sender |-> <<>>,
            recipients |-> <<>>, company |-> <<>>]

\* The sender "j@a.c" derives company "a"; the second email names its
\* company explicitly; the others lack their subject, body or sender.
Emails ==
  { [NoEmail EXCEPT !.subject = <<"s">>, !.body = <<"x">>,
                    !.sender = <<"j", "@", "a", ".", "c">>],
    [NoEmail EXCEPT !.subject = <<"s">>, !.body = <<"x">>,
                    !.sender = <<"j", "@", "a", ".", "c">>,
                    !.company = <<"b">>],
    [NoEmail EXCEPT !.body = <<"x">>, !.sender = <<"j", "@", "a", ".", "c">>],
    [NoEmail EXCEPT !.subject = <<"s">>, !.sender = <<"j", "@", "a", ".", "c">>],
    [NoEmail EXCEPT !.subject = <<"s">>, !.body = <<"x">>] }

\* Bodies of POST /:userId/emails: unparsable JSON, or an EmailData object.
EmailBodies ==
  {[json |-> FALSE, email |-> NoEmail]} \cup {[json |-> TRUE, email |-> e] : e \in Emails}

\* Bodies of PUT /:userId/memories/:memoryId: unparsable JSON, a content that
\* is no string, a blank content, and " n".
UpdateBodies ==
  { [json |-> FALSE, isString |-> FALSE, content |-> <<>>],
    [json |-> TRUE, isString |-> FALSE, content |-> <<>>],
    [json |-> TRUE, isString |-> TRUE, content |-> <<" ">>],
    [json |-> TRUE, isString |-> TRUE, content |-> <<" ", "n">>] }

\* The company query parameter of a search: absent, empty, or a name.
Filters == {<<>>, << <<>> >>, << <<"a">> >>}

(***************************************************************************)
(* D1 statements over the tables, as sets of rows.                         *)
(***************************************************************************)
\* INSERT INTO memories (id, userId, content): id is the PRIMARY KEY.
CanInsertMemory(mem, memoryId) == \A r \in mem : r.id # memoryId

\* Mutation of storeMemoryInD1: the new row replaces the rows of the same
\* owner and content.
storeMemoryInD1Replacing(mem, content, userId, memoryId) ==
  {r \in mem : ~(r.userId = userId /\ r.content = content)}
    \cup {[id |-> memoryId, userId |-> userId, content |-> content]}

storeMemoryInD1(mem, content, userId, memoryId) ==
  mem \cup {[id |-> memoryId, userId |-> userId, content |-> content]}

\* SELECT id, content FROM memories WHERE userId = ?  (the ORDER BY
\* created_at is not modelled: the listing is taken as a set of rows).
getAllMemoriesFromD1(mem, userId) ==
  {[id |-> r.id, content |-> r.content] : r \in {m \in mem : m.userId = userId}}

\* DELETE FROM memories WHERE id = ? AND userId = ?
deleteMemoryFromD1(mem, memoryId, userId) ==
  {r \in mem : ~(r.id = memoryId /\ r.userId = userId)}

\* Mutation of UpdateChanges: the WHERE clause lacks `AND userId = ?`.
UpdateChangesAnyOwner(mem, memoryId, userId) ==
  Cardinality({r \in mem : r.id = memoryId})

\* result.meta.changes of UPDATE memories SET content = ? WHERE id = ? AND userId = ?
UpdateChanges(mem, memoryId, userId) ==
  Cardinality({r \in mem : r.id = memoryId /\ r.userId = userId})

\* Mutation of updateMemoryInD1: the row keeps its content.
updateMemoryInD1KeepsContent(mem, memoryId, userId, newContent) == mem

updateMemoryInD1(mem, memoryId, userId, newContent) ==
  {IF r.id = memoryId /\ r.userId = userId
   THEN [r EXCEPT !.content = newContent] ELSE r : r \in mem}

\* The company stored with an email: email.company || extractCompanyFromEmail(sender).
CompanyOf(email) ==
  IF email.company # <<>> THEN email.company ELSE extractCompanyFromEmail(email.sender)

\* email.recipients?.join(',') ?? ''
RecipientsOf(email) == Join(email.recipients, <<",">>)

\* `${subject}\n${body}\nFrom: ${sender}\nTo: ${recipients}`
TextOf(email) ==
  email.subject \o <<"\n">> \o email.body \o <<"\n", "From: ">> \o email.sender
    \o <<"\n", "To: ">> \o RecipientsOf(email)

\* Mutation of insertEmail: the company is always derived from the sender.
insertEmailDerivedCompany(em, email, userId, memoryId) ==
  em \cup {[id |-> memoryId, userId |-> userId, memoryId |-> memoryId,
            sender |-> email.sender, subject |-> email.subject,
            company |-> extractCompanyFromEmail(email.sender)]}

\* INSERT INTO emails (id, userId, memoryId, sender, ..., company, ...)
insertEmail(em, email, userId, memoryId) ==
  em \cup {[id |-> memoryId, userId |-> userId, memoryId |-> memoryId,
            sender |-> email.sender, subject |-> email.subject,
            company |-> CompanyOf(email)]}

CanInsertEmail(em, memoryId) == \A r \in em : r.id # memoryId

\* Mutation of deleteEmail: the WHERE clause lacks `AND userId = ?`.
deleteEmailAnyOwner(em, memoryId, userId) ==
  {r \in em : r.memoryId # memoryId}

\* DELETE FROM emails WHERE memoryId = ? AND userId = ?
deleteEmail(em, memoryId, userId) ==
  {r \in em : ~(r.memoryId = memoryId /\ r.userId = userId)}

\* Mutation of getEmailsMetadata: the owner test is missing.
getEmailsMetadataAnyOwner(em, memoryIds, userId) ==
  LET rows == {r \in em : r.memoryId \in memoryIds}
      keys == {r.memoryId : r \in rows}
  IN [k \in keys |-> CHOOSE r \in rows : r.memoryId = k]

\* SELECT * FROM emails WHERE memoryId IN (...) AND userId = ?, as the map
\* memoryId -> row; no statement is issued for an empty id list.
getEmailsMetadata(em, memoryIds, userId) ==
  LET rows == {r \in em : r.memoryId \in memoryIds /\ r.userId = userId}
      keys == {r.memoryId : r \in rows}
  IN [k \in keys |-> CHOOSE r \in rows : r.memoryId = k]

\* SELECT e.*, m.content FROM emails e JOIN memories m ON e.memoryId = m.id
\* WHERE e.memoryId = ? AND e.userId = ?  -- the rows; first() takes one.
getEmailWithContent(em, mem, memoryId, userId) ==
  {[id |-> e.id, userId |-> e.userId, memoryId |-> e.memoryId, sender |-> e.sender,
    subject |-> e.subject, company |-> e.company, content |-> m.content] :
     <<e, m>> \in {r \in em : r.memoryId = memoryId /\ r.userId = userId}
                    \X {r \in mem : r.id = memoryId}}

\* SELECT * FROM emails WHERE userId = ?  (ORDER BY not modelled).
listEmails(em, userId) == {r \in em : r.userId = userId}

(***************************************************************************)
(* The Vectorize index (utils/vectorize): entries keyed by namespace and   *)
(* id; the vector of an entry is represented by the text it embeds.  The   *)
(* metadata of an entry is read by no modelled operation and is left out.  *)
(***************************************************************************)
\* storeMemory / updateMemoryVector: embed the text, upsert under the namespace.
VecUpsert(vs, namespace, memoryId, text) ==
  {v \in vs : ~(v.namespace = namespace /\ v.id = memoryId)}
    \cup {[namespace |-> namespace, id |-> memoryId, content |-> text]}

\* deleteVectorById
VecDelete(vs, namespace, memoryId) ==
  {v \in vs : ~(v.namespace = namespace /\ v.id = memoryId)}

\* All sequences without repetition over the members of S.
RECURSIVE Arrangements(_)
Arrangements(S) ==
  {<<>>} \cup UNION {{<<x>> \o t : t \in Arrangements(S \ {x})} : x \in S}

\* searchMemories: the matches of a query in a namespace, any selection of
\* the namespace's entries in any order, with scores descending.
Rankings(vs, namespace) ==
  LET ids == {v.id : v \in {w \in vs : w.namespace = namespace}}
  IN {[i \in 1..Len(a) |-> [id |-> a[i], score |-> Len(a) + 1 - i]] :
        a \in Arrangements(ids)}

\* Mutation of MergeMatch: the company test is missing.
MergeMatchUnfiltered(match, metadataMap, company) ==
  IF match.id \notin DOMAIN metadataMap THEN <<>>
  ELSE LET meta == metadataMap[match.id] IN
       << [id |-> meta.id, userId |-> meta.userId, memoryId |-> meta.memoryId,
           sender |-> meta.sender, subject |-> meta.subject,
           company |-> meta.company, score |-> match.score] >>

(***************************************************************************)
(* searchEmailMemories: the join of the vector matches with the emails     *)
(* rows of the user, and the company filter (map, then filter(Boolean)).   *)
(***************************************************************************)
\* The value the map callback returns for one match: <<>> for undefined.
MergeMatch(match, metadataMap, company) ==
  IF match.id \notin DOMAIN metadataMap THEN <<>>
  ELSE LET meta == metadataMap[match.id] IN
       IF company # <<>> /\ company[1] # <<>> /\ meta.company # company[1] THEN <<>>
       ELSE << [id |-> meta.id, userId |-> meta.userId, memoryId |-> meta.memoryId,
                sender |-> meta.sender, subject |-> meta.subject,
                company |-> meta.company, score |-> match.score] >>

RECURSIVE FlatMap(_, _, _)
FlatMap(vectorResults, metadataMap, company) ==
  IF vectorResults = <<>> THEN <<>>
  ELSE MergeMatch(Head(vectorResults), metadataMap, company)
         \o FlatMap(Tail(vectorResults), metadataMap, company)

searchEmailMemories(vectorResults, em, userId, company) ==
  LET ids == {vectorResults[i].id : i \in 1..Len(vectorResults)}
      metadataMap == getEmailsMetadata(em, ids, userId)
  IN FlatMap(vectorResults, metadataMap, company)

(***************************************************************************)
(* State.                                                                  *)
(***************************************************************************)
VARIABLES
  memories,   \* rows of the D1 table memories
  emails,     \* rows of the D1 table emails
  vectors,    \* entries of the Vectorize index
  nextId,     \* the next id uuidv4() mints
  reqs,       \* request slot -> the request it handles, or its response
  dbInitialized,  \* the module-level latch of the initialization middleware
  schema      \* the tables, the optional columns of emails and the indexes of D1

vars == <<memories, emails, vectors, nextId, reqs, dbInitialized, schema>>

database == <<dbInitialized, schema>>

stores == <<memories, emails, vectors>>

\* A request: its operation and parameters, the call it awaits (pc), the
\* calls it has made, the call that threw (if one did), the row count D1
\* reported for its DELETE or UPDATE, and its response.
Idle ==
  [op |-> "none", pc |-> "idle", userId |-> "", memoryId |-> 0, content |-> <<>>,
   email |-> NoEmail, filter |-> <<>>, hits |-> <<>>, calls |-> {}, threw |-> "",
   changes |-> -1, status |-> 0, error |-> <<>>, results |-> <<>>, rows |-> {}]

\* The handler of a request starts: the middleware found the latch set and
\* called next() at once, or it has run initializeDatabase and calls next().
Free(s) == reqs[s].pc = "next" \/ (reqs[s].pc = "idle" /\ dbInitialized)

Done(r) == r.pc = "done"

\* A request of operation op for (userId, memoryId) whose body was accepted.
Request(op, userId, memoryId) ==
  [Idle EXCEPT !.op = op, !.pc = "run", !.userId = userId, !.memoryId = memoryId]

\* return c.json({success: status = 200, ...}, status)
Respond(r, status, error) ==
  [r EXCEPT !.pc = "done", !.status = status, !.error = error,
            !.email = NoEmail, !.hits = <<>>]

\* The request has issued `call` and awaits it.
Called(r, call) == [r EXCEPT !.pc = call, !.calls = @ \cup {call}]

\* The awaited call threw and a catch block answers with status and error.
Throw(r, status, error) == Respond([r EXCEPT !.threw = r.pc], status, error)

\* The awaited call threw into a catch block that only logs.
Swallow(r) == [r EXCEPT !.threw = r.pc]

\* Error messages, as sequences of words.
MsgNotFound(memoryId, userId) ==
  <<"Memory", "with", "ID", ToString(memoryId), "not", "found", "for", "user", userId,
    "or", "content", "unchanged.">>

MsgD1 == <<"D1_ERROR">>

\* String.prototype.includes, over words.
Includes(msg, words) ==
  \E i \in 1..(Len(msg) - Len(words) + 1) : SubSeq(msg, i, i + Len(words) - 1) = words

\* The status app.put answers a thrown error with.
UpdateErrorStatus(msg) == IF Includes(msg, <<"not", "found">>) THEN 404 ELSE 500

\* Columns of emails that an older schema lacks, and the indexes on emails.
OptionalColumns == {"messageId", "inReplyTo"}

IndexNames ==
  <<"emails_userId_idx", "emails_memory_idx", "emails_sender_idx", "emails_company_idx">>

\* The schema initializeDatabase leaves.
FullSchema ==
  [tables |-> {"memories", "emails"}, columns |-> OptionalColumns,
   indexes |-> {IndexNames[i] : i \in DOMAIN IndexNames}]

\* The first request has been served: the database is initialized and empty.
Init ==
  /\ memories = {}
  /\ emails = {}
  /\ vectors = {}
  /\ nextId = 1
  /\ reqs = [s \in {1} |-> Idle]
  /\ dbInitialized = TRUE
  /\ schema = FullSchema

(***************************************************************************)
(* DELETE /:userId/memories/:memoryId                                      *)
(***************************************************************************)
\* After `await deleteMemoryFromD1`: go on to the vector, or the outer catch.
DeleteMemoryAfterD1(r, ok) ==
  IF ok THEN Called(r, "deleteVectorById")
  ELSE Throw(r, 500, <<"Failed to delete memory">>)

\* Mutation of DeleteMemoryAfterVector: no inner catch, the throw reaches the
\* outer one.
DeleteMemoryAfterVectorPropagated(r, ok) ==
  IF ok THEN Respond(r, 200, <<>>) ELSE Throw(r, 500, <<"Failed to delete memory">>)

\* After `await deleteVectorById`: the inner catch logs; success either way.
DeleteMemoryAfterVector(r, ok) ==
  Respond(IF ok THEN r ELSE Swallow(r), 200, <<>>)

\* The request arrives and deleteMemoryFromD1 resolves or throws.
DeleteMemoryD1(s) ==
  /\ Free(s)
  /\ \E userId \in Users, memoryId \in UrlIds, ok \in BOOLEAN :
       LET r == Called(Request("deleteMemory", userId, memoryId), "deleteMemoryFromD1")
           after == deleteMemoryFromD1(memories, memoryId, userId) IN
       /\ memories' = IF ok THEN after ELSE memories
       /\ reqs' = [reqs EXCEPT ![s] =
            DeleteMemoryAfterD1(
              [r EXCEPT !.changes = IF ok THEN Cardinality(memories \ after) ELSE -1], ok)]
  /\ UNCHANGED <<emails, vectors, nextId>>
  /\ UNCHANGED database

DeleteMemoryVector(s) ==
  /\ reqs[s].op = "deleteMemory" /\ reqs[s].pc = "deleteVectorById"
  /\ \E ok \in BOOLEAN :
       /\ vectors' = IF ok THEN VecDelete(vectors, reqs[s].userId, reqs[s].memoryId)
                     ELSE vectors
       /\ reqs' = [reqs EXCEPT ![s] = DeleteMemoryAfterVector(@, ok)]
  /\ UNCHANGED <<memories, emails, nextId>>
  /\ UNCHANGED database

(***************************************************************************)
(* PUT /:userId/memories/:memoryId                                         *)
(***************************************************************************)
\* Mutation of ValidUpdateBody: the content is not trimmed before the test.
ValidUpdateBodyUntrimmed(body) == body.json /\ body.isString /\ body.content # <<>>

\* !body || typeof body.content !== "string" || body.content.trim() === ""
ValidUpdateBody(body) == body.json /\ body.isString /\ Trim(body.content) # <<>>

\* After `await updateMemoryInD1`, which throws on a D1 error and on
\* meta.changes = 0: the outer catch maps the message to 404 or 500.
UpdateAfterD1(r, ok, changes) ==
  IF ~ok THEN Throw(r, UpdateErrorStatus(MsgD1), MsgD1)
  ELSE IF changes = 0
  THEN Throw(r, UpdateErrorStatus(MsgNotFound(r.memoryId, r.userId)),
             MsgNotFound(r.memoryId, r.userId))
  ELSE Called(r, "updateMemoryVector")

\* Mutation of UpdateAfterVector: no inner catch, the throw reaches the outer one.
UpdateAfterVectorPropagated(r, ok) ==
  IF ok THEN Respond(r, 200, <<>>) ELSE Throw(r, UpdateErrorStatus(MsgD1), MsgD1)

\* After `await updateMemoryVector`: the inner catch logs; success either way.
UpdateAfterVector(r, ok) ==
  Respond(IF ok THEN r ELSE Swallow(r), 200, <<>>)

\* The body is parsed and validated; then updateMemoryInD1 resolves or throws.
UpdateMemoryD1From(s, bodies) ==
  /\ Free(s)
  /\ \E userId \in Users, memoryId \in UrlIds, body \in bodies, ok \in BOOLEAN :
       IF ~ValidUpdateBody(body)
       THEN /\ memories' = memories
            /\ reqs' = [reqs EXCEPT ![s] =
                 Respond(Request("updateMemory", userId, memoryId), 400,
                         IF body.json
                         THEN <<"Invalid or missing content in request body">>
                         ELSE <<"Failed to parse request body">>)]
       ELSE LET updatedContent == Trim(body.content)
                changes == UpdateChanges(memories, memoryId, userId)
                r == Called([Request("updateMemory", userId, memoryId)
                               EXCEPT !.content = updatedContent], "updateMemoryInD1")
            IN /\ memories' = IF ok
                              THEN updateMemoryInD1(memories, memoryId, userId, updatedContent)
                              ELSE memories
               /\ reqs' = [reqs EXCEPT ![s] =
                    UpdateAfterD1([r EXCEPT !.changes = IF ok THEN changes ELSE -1],
                                  ok, changes)]
  /\ UNCHANGED <<emails, vectors, nextId>>
  /\ UNCHANGED database

UpdateMemoryD1(s) == UpdateMemoryD1From(s, UpdateBodies)

UpdateMemoryVector(s) ==
  /\ reqs[s].op = "updateMemory" /\ reqs[s].pc = "updateMemoryVector"
  /\ \E ok \in BOOLEAN :
       /\ vectors' = IF ok
                     THEN VecUpsert(vectors, reqs[s].userId, reqs[s].memoryId,
                                    reqs[s].content)
                     ELSE vectors
       /\ reqs' = [reqs EXCEPT ![s] = UpdateAfterVector(@, ok)]
  /\ UNCHANGED <<memories, emails, nextId>>
  /\ UNCHANGED database

(***************************************************************************)
(* POST /:userId/emails  (storeEmailMemory)                                *)
(***************************************************************************)
ValidEmailBody(body) ==
  /\ body.json
  /\ body.email.subject # <<>> /\ body.email.body # <<>> /\ body.email.sender # <<>>

\* Mutation of StoreAfterD1: the throw of the content write is only logged.
StoreAfterD1Swallowed(r, ok) ==
  Called(IF ok THEN r ELSE Swallow(r), "storeMemory")

\* storeEmailMemory has no catch: whatever it awaits, a throw reaches the
\* handler's catch, which answers 500.
StoreAfterD1(r, ok) ==
  IF ok THEN Called(r, "storeMemory") ELSE Throw(r, 500, <<"Failed to store email">>)

\* Mutation of StoreAfterVector: the throw of storeMemory is only logged.
StoreAfterVectorSwallowed(r, ok) ==
  Called(IF ok THEN r ELSE Swallow(r), "insertEmail")

StoreAfterVector(r, ok) ==
  IF ok THEN Called(r, "insertEmail") ELSE Throw(r, 500, <<"Failed to store email">>)

\* Mutation of StoreAfterInsert: a throw of the emails INSERT is only logged.
StoreAfterInsertSwallowed(r, ok) ==
  Respond(IF ok THEN r ELSE Swallow(r), 200, <<>>)

StoreAfterInsert(r, ok) ==
  IF ok THEN Respond(r, 200, <<>>) ELSE Throw(r, 500, <<"Failed to store email">>)

\* The body is parsed and validated, storeEmailMemory mints the id and
\* storeMemoryInD1 resolves or throws.
StoreEmailD1(s) ==
  /\ Free(s)
  /\ \E userId \in Users, body \in EmailBodies, success \in BOOLEAN :
       IF ~ValidEmailBody(body)
       THEN /\ memories' = memories
            /\ nextId' = nextId
            /\ reqs' = [reqs EXCEPT ![s] =
                 Respond(Request("storeEmail", userId, 0), 400,
                         IF body.json THEN <<"Missing required email fields">>
                         ELSE <<"Invalid JSON body">>)]
       ELSE /\ nextId <= MaxIds
            /\ nextId' = nextId + 1
            /\ LET r == Called([Request("storeEmail", userId, nextId)
                                  EXCEPT !.email = body.email, !.content = TextOf(body.email)],
                               "storeMemoryInD1")
                   ok == success /\ CanInsertMemory(memories, nextId)
               IN /\ memories' = IF ok
                                 THEN storeMemoryInD1(memories, r.content, userId, nextId)
                                 ELSE memories
                  /\ reqs' = [reqs EXCEPT ![s] = StoreAfterD1(r, ok)]
  /\ UNCHANGED <<emails, vectors>>
  /\ UNCHANGED database

\* storeMemory (embedding, then upsert) resolves or throws.
StoreEmailVector(s) ==
  /\ reqs[s].op = "storeEmail" /\ reqs[s].pc = "storeMemory"
  /\ \E ok \in BOOLEAN :
       /\ vectors' = IF ok
                     THEN VecUpsert(vectors, reqs[s].userId, reqs[s].memoryId,
                                    reqs[s].content)
                     ELSE vectors
       /\ reqs' = [reqs EXCEPT ![s] = StoreAfterVector(@, ok)]
  /\ UNCHANGED <<memories, emails, nextId>>
  /\ UNCHANGED database

\* The INSERT INTO emails resolves or throws; on success the id is returned.
StoreEmailInsert(s) ==
  /\ reqs[s].op = "storeEmail" /\ reqs[s].pc = "insertEmail"
  /\ \E success \in BOOLEAN :
       LET r == reqs[s]
           ok == success /\ CanInsertEmail(emails, r.memoryId) IN
       /\ emails' = IF ok THEN insertEmail(emails, r.email, r.userId, r.memoryId)
                    ELSE emails
       /\ reqs' = [reqs EXCEPT ![s] = StoreAfterInsert(r, ok)]
  /\ UNCHANGED <<memories, vectors, nextId>>
  /\ UNCHANGED database

(***************************************************************************)
(* DELETE /:userId/emails/:memoryId                                        *)
(***************************************************************************)
\* The three awaits share one try block: any throw answers 500.
DeleteEmailAfterEmails(r, ok) ==
  IF ok THEN Called(r, "deleteMemoryFromD1")
  ELSE Throw(r, 500, <<"Failed to delete email">>)

DeleteEmailAfterD1(r, ok) ==
  IF ok THEN Called(r, "deleteVectorById")
  ELSE Throw(r, 500, <<"Failed to delete email">>)

DeleteEmailAfterVector(r, ok) ==
  IF ok THEN Respond(r, 200, <<>>) ELSE Throw(r, 500, <<"Failed to delete email">>)

\* The request arrives and deleteEmail resolves or throws.
DeleteEmailEmails(s) ==
  /\ Free(s)
  /\ \E userId \in Users, memoryId \in UrlIds, ok \in BOOLEAN :
       /\ emails' = IF ok THEN deleteEmail(emails, memoryId, userId) ELSE emails
       /\ reqs' = [reqs EXCEPT ![s] =
            DeleteEmailAfterEmails(
              Called(Request("deleteEmail", userId, memoryId), "deleteEmail"), ok)]
  /\ UNCHANGED <<memories, vectors, nextId>>
  /\ UNCHANGED database

DeleteEmailD1(s) ==
  /\ reqs[s].op = "deleteEmail" /\ reqs[s].pc = "deleteMemoryFromD1"
  /\ \E ok \in BOOLEAN :
       LET r == reqs[s]
           after == deleteMemoryFromD1(memories, r.memoryId, r.userId) IN
       /\ memories' = IF ok THEN after ELSE memories
       /\ reqs' = [reqs EXCEPT ![s] =
            DeleteEmailAfterD1(
              [r EXCEPT !.changes = IF ok THEN Cardinality(memories \ after) ELSE -1], ok)]
  /\ UNCHANGED <<emails, vectors, nextId>>
  /\ UNCHANGED database

DeleteEmailVector(s) ==
  /\ reqs[s].op = "deleteEmail" /\ reqs[s].pc = "deleteVectorById"
  /\ \E ok \in BOOLEAN :
       /\ vectors' = IF ok THEN VecDelete(vectors, reqs[s].userId, reqs[s].memoryId)
                     ELSE vectors
       /\ reqs' = [reqs EXCEPT ![s] = DeleteEmailAfterVector(@, ok)]
  /\ UNCHANGED <<memories, emails, nextId>>
  /\ UNCHANGED database

(***************************************************************************)
(* Reads: searchEmailMemories, GET emails/:memoryId, GET emails,           *)
(* GET memories.                                                           *)
(***************************************************************************)
\* A search arrives (query and optional company) and searchMemories
\* resolves with the ranked matches, or throws.
SearchEmailsVector(s) ==
  /\ Free(s)
  /\ \E userId \in Users, company \in Filters, ok \in BOOLEAN :
       LET r == Called([Request("searchEmails", userId, 0) EXCEPT !.filter = company],
                       "searchMemories") IN
       IF ok
       THEN \E vectorResults \in Rankings(vectors, userId) :
              reqs' = [reqs EXCEPT ![s] =
                         Called([r EXCEPT !.hits = vectorResults], "getEmailsMetadata")]
       ELSE reqs' = [reqs EXCEPT ![s] = Throw(r, 500, <<"Failed to search emails">>)]
  /\ UNCHANGED <<memories, emails, vectors, nextId>>
  /\ UNCHANGED database

\* getEmailsMetadata resolves or throws (no statement is issued for an empty
\* match list); the merged list is returned.
SearchEmailsMetadata(s) ==
  /\ reqs[s].op = "searchEmails" /\ reqs[s].pc = "getEmailsMetadata"
  /\ \E ok \in BOOLEAN :
       LET r == reqs[s] IN
       IF ok \/ r.hits = <<>>
       THEN reqs' = [reqs EXCEPT ![s] =
              Respond([r EXCEPT !.results =
                         searchEmailMemories(r.hits, emails, r.userId, r.filter)],
                      200, <<>>)]
       ELSE reqs' = [reqs EXCEPT ![s] = Throw(r, 500, <<"Failed to search emails">>)]
  /\ UNCHANGED <<memories, emails, vectors, nextId>>
  /\ UNCHANGED database

GetEmail(s) ==
  /\ Free(s)
  /\ \E userId \in Users, memoryId \in UrlIds, ok \in BOOLEAN :
       LET r == Called(Request("getEmail", userId, memoryId), "getEmailWithContent")
           found == getEmailWithContent(emails, memories, memoryId, userId) IN
       IF ~ok
       THEN reqs' = [reqs EXCEPT ![s] = Throw(r, 500, <<"Failed to retrieve email">>)]
       ELSE IF found = {}
       THEN reqs' = [reqs EXCEPT ![s] = Respond(r, 404, <<"Not Found">>)]
       ELSE \E email \in found :
              reqs' = [reqs EXCEPT ![s] = Respond([r EXCEPT !.rows = {email}], 200, <<>>)]
  /\ UNCHANGED <<memories, emails, vectors, nextId>>
  /\ UNCHANGED database

ListEmails(s) ==
  /\ Free(s)
  /\ \E userId \in Users, ok \in BOOLEAN :
       LET r == Called(Request("listEmails", userId, 0), "listEmails") IN
       IF ok
       THEN reqs' = [reqs EXCEPT ![s] =
              Respond([r EXCEPT !.rows = listEmails(emails, userId)], 200, <<>>)]
       ELSE reqs' = [reqs EXCEPT ![s] = Throw(r, 500, <<"Failed to retrieve emails">>)]
  /\ UNCHANGED <<memories, emails, vectors, nextId>>
  /\ UNCHANGED database

ListMemories(s) ==
  /\ Free(s)
  /\ \E userId \in Users, ok \in BOOLEAN :
       LET r == Called(Request("listMemories", userId, 0), "getAllMemoriesFromD1") IN
       IF ok /\ "memories" \in schema.tables
       THEN reqs' = [reqs EXCEPT ![s] =
              Respond([r EXCEPT !.rows = getAllMemoriesFromD1(memories, userId)], 200, <<>>)]
       ELSE reqs' = [reqs EXCEPT ![s] = Throw(r, 500, <<"Failed to retrieve memories">>)]
  /\ UNCHANGED <<memories, emails, vectors, nextId>>
  /\ UNCHANGED database

\* The response of a finished handler is delivered; the slot is free again.
Reply(s) ==
  /\ Done(reqs[s])
  /\ reqs' = [reqs EXCEPT ![s] = Idle]
  /\ UNCHANGED <<memories, emails, vectors, nextId>>
  /\ UNCHANGED database

(***************************************************************************)
(* Specification: requests are handled one at a time.                      *)
(***************************************************************************)
Next ==
  \/ \E s \in DOMAIN reqs : DeleteMemoryD1(s)
  \/ \E s \in DOMAIN reqs : DeleteMemoryVector(s)
  \/ \E s \in DOMAIN reqs : UpdateMemoryD1(s)
  \/ \E s \in DOMAIN reqs : UpdateMemoryVector(s)
  \/ \E s \in DOMAIN reqs : StoreEmailD1(s)
  \/ \E s \in DOMAIN reqs : StoreEmailVector(s)
  \/ \E s \in DOMAIN reqs : StoreEmailInsert(s)
  \/ \E s \in DOMAIN reqs : DeleteEmailEmails(s)
  \/ \E s \in DOMAIN reqs : DeleteEmailD1(s)
  \/ \E s \in DOMAIN reqs : DeleteEmailVector(s)
  \/ \E s \in DOMAIN reqs : SearchEmailsVector(s)
  \/ \E s \in DOMAIN reqs : SearchEmailsMetadata(s)
  \/ \E s \in DOMAIN reqs : GetEmail(s)
  \/ \E s \in DOMAIN reqs : ListEmails(s)
  \/ \E s \in DOMAIN reqs : ListMemories(s)
  \/ \E s \in DOMAIN reqs : Reply(s)

Spec == Init /\ [][Next]_vars

(***************************************************************************)
(* Vocabulary of the properties.                                           *)
(***************************************************************************)
HasContentRow(mem, memoryId, userId) ==
  \E m \in mem : m.id = memoryId /\ m.userId = userId

HasEmailRow(em, memoryId, userId) ==
  \E e \in em : e.memoryId = memoryId /\ e.userId = userId

HasVector(vs, memoryId, userId) ==
  \E v \in vs : v.id = memoryId /\ v.namespace = userId

ResultIds(results) == {results[i].id : i \in 1..Len(results)}

\* The ids some search on behalf of userId returns in the current state.
Searchable(userId) ==
  UNION {ResultIds(searchEmailMemories(h, emails, userId, f)) :
           <<h, f>> \in Rankings(vectors, userId) \X Filters}

\* The request of slot s has just been answered.
Answered(s, op) == Done(reqs[s]) /\ reqs[s].op = op

(***************************************************************************)
(* C1.  After a delete of (id, owner) has been answered with success, a    *)
(* get of (id, owner) finds nothing and no search for that owner returns   *)
(* the id, whichever delete it was and whether or not the vector delete    *)
(* failed.                                                                 *)
(***************************************************************************)
C1_DeletedIsHidden ==
  \A s \in DOMAIN reqs :
    (Answered(s, "deleteMemory") \/ Answered(s, "deleteEmail")) /\ reqs[s].status = 200
      => /\ getEmailWithContent(emails, memories, reqs[s].memoryId, reqs[s].userId) = {}
         /\ reqs[s].memoryId \notin Searchable(reqs[s].userId)

(***************************************************************************)
(* C2.  A create whose storeMemory step (embedding or upsert) threw is     *)
(* answered with an error and goes no further; its content row is          *)
(* committed: the owner's listing holds it and no search returns it.       *)
(***************************************************************************)
C2_CreateIndexFailure ==
  \A s \in DOMAIN reqs :
    LET r == reqs[s] IN
    r.op = "storeEmail" /\ r.threw = "storeMemory"
      => /\ Done(r) /\ r.status = 500
         /\ "insertEmail" \notin r.calls
         /\ [id |-> r.memoryId, content |-> r.content]
              \in getAllMemoriesFromD1(memories, r.userId)
         /\ \A u \in Users : r.memoryId \notin Searchable(u)

C2_Witness ==
  \E s \in DOMAIN reqs :
    /\ Answered(s, "storeEmail") /\ reqs[s].threw = "storeMemory"
    /\ HasContentRow(memories, reqs[s].memoryId, reqs[s].userId)

(***************************************************************************)
(* C3.  A create whose content write threw is answered with an error in    *)
(* that very step: no other call is made and the three stores are          *)
(* unchanged.                                                              *)
(***************************************************************************)
C3_CreateStoreFailure ==
  [][\A s \in DOMAIN reqs :
       reqs[s].pc = "idle" /\ reqs'[s].op = "storeEmail"
         /\ reqs'[s].threw = "storeMemoryInD1"
       => /\ Done(reqs'[s]) /\ reqs'[s].status = 500
          /\ reqs'[s].calls = {"storeMemoryInD1"}
          /\ UNCHANGED stores]_vars

C3_Witness ==
  \E s \in DOMAIN reqs :
    /\ Answered(s, "storeEmail") /\ reqs[s].threw = "storeMemoryInD1"
    /\ memories # {}

(***************************************************************************)
(* C4.  Every hit of an answered search has a content row of the           *)
(* searching owner.                                                        *)
(***************************************************************************)
C4_HitsHaveContent ==
  \A s \in DOMAIN reqs :
    Answered(s, "searchEmails") /\ reqs[s].status = 200
      => \A id \in ResultIds(reqs[s].results) :
           HasContentRow(memories, id, reqs[s].userId)

(***************************************************************************)
(* C5.  An update with an accepted body whose UPDATE statement ran and     *)
(* whose (id, owner) has no content row is answered 404 in that step;      *)
(* the stores are unchanged and the vector update is not called.           *)
(***************************************************************************)
C5_UpdateNotFound ==
  [][\A s \in DOMAIN reqs :
       reqs[s].pc = "idle" /\ reqs'[s].op = "updateMemory"
         /\ "updateMemoryInD1" \in reqs'[s].calls /\ reqs'[s].error # MsgD1
         /\ ~HasContentRow(memories, reqs'[s].memoryId, reqs'[s].userId)
       => /\ Done(reqs'[s]) /\ reqs'[s].status = 404
          /\ "updateMemoryVector" \notin reqs'[s].calls
          /\ UNCHANGED stores]_vars

\* A 404 for an id whose content row belongs to the other owner.
C5_Witness ==
  \E s \in DOMAIN reqs :
    /\ Answered(s, "updateMemory") /\ reqs[s].status = 404
    /\ \E m \in memories : m.id = reqs[s].memoryId /\ m.userId # reqs[s].userId

(***************************************************************************)
(* C6.  When the vector step of an update throws, the update is answered   *)
(* with success, the content row holds the new content (and so does a      *)
(* get), and the index is left as it was.                                  *)
(***************************************************************************)
C6_UpdateIndexFailure ==
  [][\A s \in DOMAIN reqs :
       reqs[s].op = "updateMemory" /\ reqs[s].pc = "updateMemoryVector"
         /\ reqs'[s].threw = "updateMemoryVector"
       => /\ Done(reqs'[s]) /\ reqs'[s].status = 200
          /\ [id |-> reqs[s].memoryId, content |-> reqs[s].content]
               \in getAllMemoriesFromD1(memories', reqs[s].userId)
          /\ \A e \in getEmailWithContent(emails', memories', reqs[s].memoryId,
                                          reqs[s].userId) :
               e.content = reqs[s].content
          /\ vectors' = vectors]_vars

\* Answered with success while the index entry still embeds the old text.
C6_Witness ==
  \E s \in DOMAIN reqs :
    /\ Answered(s, "updateMemory") /\ reqs[s].threw = "updateMemoryVector"
    /\ reqs[s].status = 200
    /\ \E v \in vectors :
         /\ v.id = reqs[s].memoryId /\ v.namespace = reqs[s].userId
         /\ v.content # reqs[s].content
    /\ getEmailWithContent(emails, memories, reqs[s].memoryId, reqs[s].userId) # {}

(***************************************************************************)
(* C7.  Memory delete: a throw of the content delete (the first call) is   *)
(* answered with an error, with no vector delete and no store changed; a   *)
(* throw of the vector delete that follows is answered with success, the   *)
(* content row gone and the index left as it was.                          *)
(***************************************************************************)
C7_DeletePolicy ==
  [][\A s \in DOMAIN reqs :
       /\ reqs[s].pc = "idle" /\ reqs'[s].op = "deleteMemory"
            /\ reqs'[s].threw = "deleteMemoryFromD1"
          => /\ Done(reqs'[s]) /\ reqs'[s].status = 500
             /\ reqs'[s].calls = {"deleteMemoryFromD1"}
             /\ UNCHANGED stores
       /\ reqs'[s].op = "deleteMemory" /\ "deleteVectorById" \in reqs'[s].calls
          => "deleteMemoryFromD1" \in reqs'[s].calls
               /\ reqs'[s].threw # "deleteMemoryFromD1"
       /\ reqs[s].op = "deleteMemory" /\ reqs[s].pc = "deleteVectorById"
            /\ reqs'[s].threw = "deleteVectorById"
          => /\ Done(reqs'[s]) /\ reqs'[s].status = 200
             /\ ~HasContentRow(memories', reqs[s].memoryId, reqs[s].userId)
             /\ vectors' = vectors]_vars

\* Answered with success, the content row gone, the vector entry still there.
C7_Witness ==
  \E s \in DOMAIN reqs :
    /\ Answered(s, "deleteMemory") /\ reqs[s].threw = "deleteVectorById"
    /\ reqs[s].changes = 1
    /\ HasVector(vectors, reqs[s].memoryId, reqs[s].userId)
    /\ ~HasContentRow(memories, reqs[s].memoryId, reqs[s].userId)

(***************************************************************************)
(* C8.  A delete that ran without a throw and whose DELETE FROM memories   *)
(* matched no row of the owner is answered 404.                            *)
(***************************************************************************)
C8_DeleteNotFound ==
  \A s \in DOMAIN reqs :
    (Answered(s, "deleteMemory") \/ Answered(s, "deleteEmail"))
      /\ reqs[s].threw = "" /\ reqs[s].changes = 0
    => reqs[s].status = 404

(***************************************************************************)
(* C9.  An email delete whose vector delete threw is answered with         *)
(* success, the emails row and the content row removed.                    *)
(***************************************************************************)
C9_EmailDeleteIndexFailure ==
  \A s \in DOMAIN reqs :
    Answered(s, "deleteEmail") /\ reqs[s].threw = "deleteVectorById"
    => /\ reqs[s].status = 200
       /\ ~HasEmailRow(emails, reqs[s].memoryId, reqs[s].userId)
       /\ ~HasContentRow(memories, reqs[s].memoryId, reqs[s].userId)

(***************************************************************************)
(* C10.  Company filter.                                                   *)
(***************************************************************************)
\* The step that answers the search of slot s with its merged list.
SearchAnswered(s) ==
  /\ reqs[s].op = "searchEmails" /\ reqs[s].pc = "getEmailsMetadata"
  /\ Done(reqs'[s]) /\ reqs'[s].status = 200

\* The answer of slot s is the answer of the same search (same ranked
\* matches, same state) without the filter, restricted to the hits whose
\* company is `company`: same order, same scores, nothing else dropped.
AnswerSelects(s, company) ==
  LET unfiltered == searchEmailMemories(reqs[s].hits, emails, reqs[s].userId, <<>>)
      Matches(hit) == hit.company = company
  IN reqs'[s].results = SelectSeq(unfiltered, Matches)

\* C10 as claimed: with any supplied filter value, the empty one included,
\* the filtered answer is that selection of the unfiltered one.
C10_FilterAnyValue ==
  [][\A s \in DOMAIN reqs :
       SearchAnswered(s) /\ reqs[s].filter # <<>>
         => AnswerSelects(s, reqs[s].filter[1])]_vars

\* C10 as amended: the same for every non-empty filter value; a supplied but
\* empty filter value filters nothing.
C10_FilterNonEmpty ==
  [][\A s \in DOMAIN reqs :
       /\ SearchAnswered(s) /\ reqs[s].filter # <<>> /\ reqs[s].filter[1] # <<>>
            => AnswerSelects(s, reqs[s].filter[1])
       /\ SearchAnswered(s) /\ reqs[s].filter = << <<>> >>
            => reqs'[s].results
                 = searchEmailMemories(reqs[s].hits, emails, reqs[s].userId, <<>>)]_vars

\* An answered search filtered by company "a" that returned a hit while the
\* owner's index also holds an email of another company.
C10_Witness ==
  \E s \in DOMAIN reqs :
    /\ Answered(s, "searchEmails") /\ reqs[s].status = 200
    /\ reqs[s].filter = << <<"a">> >> /\ reqs[s].results # <<>>
    /\ \E e \in emails :
         /\ e.userId = reqs[s].userId /\ e.company # <<"a">>
         /\ HasVector(vectors, e.memoryId, e.userId)

(***************************************************************************)
(* Referential integrity of the structured record layer.                   *)
(***************************************************************************)
\* C11: in every reachable state, every row of emails has id = memoryId and
\* a row of memories with that id and the same owner exists.
C11_EmailsHaveContentRow ==
  \A e \in emails :
    /\ e.id = e.memoryId
    /\ HasContentRow(memories, e.memoryId, e.userId)

(***************************************************************************)
(* Read isolation between owners.                                          *)
(***************************************************************************)
\* Match lists the index could return if it ignored the namespace: any ids
\* of the system, in any order.
AnyMatches ==
  {[i \in 1..Len(a) |-> [id |-> a[i], score |-> Len(a) + 1 - i]] : a \in Arrangements(Ids)}

\* C12: a listing of memories, a listing of emails, a get and a search made
\* for an owner answer with that owner's records only, and a search does so
\* for every match list, one with ids of another owner's records included.
C12_ReadIsolation ==
  \A s \in DOMAIN reqs :
    LET r == reqs[s] IN
    /\ Answered(s, "listMemories") /\ r.status = 200
         => \A m \in r.rows :
              \E row \in memories :
                row.id = m.id /\ row.userId = r.userId /\ row.content = m.content
    /\ Answered(s, "listEmails") /\ r.status = 200
         => \A e \in r.rows : e.userId = r.userId
    /\ Answered(s, "getEmail") /\ r.status = 200
         => \A e \in r.rows :
              /\ e.userId = r.userId
              /\ \E row \in memories :
                   row.id = e.memoryId /\ row.userId = r.userId /\ row.content = e.content
    /\ Answered(s, "searchEmails") /\ r.status = 200
         => \A i \in 1..Len(r.results) : r.results[i].userId = r.userId
    /\ Free(s)
         => \A userId \in Users, company \in Filters, vectorResults \in AnyMatches :
              LET results == searchEmailMemories(vectorResults, emails, userId, company)
              IN \A i \in 1..Len(results) : results[i].userId = userId

\* A search answered with a hit for one owner while the emails table holds a
\* row of another owner.
C12_Witness ==
  \E s \in DOMAIN reqs :
    /\ Answered(s, "searchEmails") /\ reqs[s].status = 200 /\ reqs[s].results # <<>>
    /\ \E e \in emails : e.userId # reqs[s].userId

(***************************************************************************)
(* Validation before side effects.                                         *)
(***************************************************************************)
\* An email carrying the three required fields.
HasRequiredFields(email) ==
  email.subject # <<>> /\ email.body # <<>> /\ email.sender # <<>>

Rewrites(memoryId) ==
  \E s \in DOMAIN reqs :
    /\ reqs'[s].op \in {"updateMemory", "deleteMemory", "deleteEmail"}
    /\ reqs'[s].memoryId = memoryId

MaxSenderLen == 5

SenderChars == {"a", "B", ".", "@", ">"}

Senders == UNION {[1..n -> SenderChars] : n \in 0..MaxSenderLen}

InitCompany ==
  /\ memories = {}
  /\ emails = {}
  /\ vectors = {}
  /\ nextId = 1
  /\ \E sender \in Senders :
       reqs = [s \in {1} |-> [Idle EXCEPT !.email.sender = sender]]
  /\ dbInitialized = TRUE
  /\ schema = FullSchema

\* const company = email.company || extractCompanyFromEmail(email.sender),
\* for an email without company.
ExtractCompany(s) ==
  /\ Free(s)
  /\ reqs' = [reqs EXCEPT ![s] =
       [@ EXCEPT !.op = "extractCompanyFromEmail", !.pc = "done",
                 !.content = CompanyOf(reqs[s].email)]]
  /\ UNCHANGED <<memories, emails, vectors, nextId>>
  /\ UNCHANGED database

NextCompany == \E s \in DOMAIN reqs : ExtractCompany(s)

SpecCompany == InitCompany /\ [][NextCompany]_vars

\* The largest index of a '@' in s; 0 if there is none.
LastAt(s) ==
  LET ats == {i \in 1..Len(s) : s[i] = "@"}
  IN IF ats = {} THEN 0 ELSE CHOOSE i \in ats : \A j \in ats : j <= i

\* The company as the rule reads: the text after the last '@' up to an
\* optional trailing '>', lowercased, split on '.', the leading label dropped
\* when more than two labels remain, the first remaining label.
CompanyAfterLastAt(sender) ==
  IF LastAt(sender) = 0 THEN <<>>
  ELSE LET rest == SubSeq(sender, LastAt(sender) + 1, Len(sender))
           domain == IF rest # <<>> /\ rest[Len(rest)] = ">"
                     THEN SubSeq(rest, 1, Len(rest) - 1) ELSE rest
           parts == Split(ToLowerCase(domain), ".")
           kept == IF Len(parts) > 2 THEN Tail(parts) ELSE parts
       IN kept[1]

\* C15: the company derived from a sender is the first label, after the
\* drop of a leading label when more than two remain, of the lowercased
\* text between the last '@' and an optional trailing '>'; a sender without
\* '@' derives none.
C15_CompanyAfterLastAt ==
  \A s \in DOMAIN reqs :
    Answered(s, "extractCompanyFromEmail")
      => reqs[s].content = CompanyAfterLastAt(reqs[s].email.sender)

(***************************************************************************)
(* A create whose emails INSERT threw.                                     *)
(***************************************************************************)
\* The create of slot s was answered after its emails INSERT threw.
InsertThrew(s) == Answered(s, "storeEmail") /\ reqs[s].threw = "insertEmail"

\* What the create of slot s leaves behind without rollback: the error is
\* surfaced, the memories row and the vector remain, no emails row exists.
LeftWithoutRecord(s) ==
  LET r == reqs[s] IN
  /\ r.status = 500
  /\ [id |-> r.memoryId, content |-> r.content] \in getAllMemoriesFromD1(memories, r.userId)
  /\ \E v \in vectors :
       v.id = r.memoryId /\ v.namespace = r.userId /\ v.content = r.content
  /\ ~HasEmailRow(emails, r.memoryId, r.userId)

\* C16 as claimed: after the emails INSERT of a create threw, the error is
\* surfaced, nothing is rolled back, and the memory is searchable.
C16_OrphanSearchable ==
  \A s \in DOMAIN reqs :
    InsertThrew(s)
      => LeftWithoutRecord(s) /\ reqs[s].memoryId \in Searchable(reqs[s].userId)

\* C16 as amended: the error is surfaced and nothing is rolled back; the
\* memory is listed and the index ranks it, but no search of emails and no
\* get returns it.
C16_OrphanNotInEmailSearch ==
  \A s \in DOMAIN reqs :
    InsertThrew(s)
      => /\ LeftWithoutRecord(s)
         /\ \E vectorResults \in Rankings(vectors, reqs[s].userId) :
              \E i \in 1..Len(vectorResults) : vectorResults[i].id = reqs[s].memoryId
         /\ reqs[s].memoryId \notin Searchable(reqs[s].userId)
         /\ getEmailWithContent(emails, memories, reqs[s].memoryId, reqs[s].userId) = {}

\* A create answered after its emails INSERT threw, while the same owner has
\* another email that a search returns.
C16_Witness ==
  \E s \in DOMAIN reqs :
    /\ InsertThrew(s)
    /\ \E e \in emails : e.userId = reqs[s].userId /\ HasVector(vectors, e.memoryId, e.userId)

(***************************************************************************)
(* Concurrent updates: MaxClients requests are in flight at once, each a   *)
(* PUT /:userId/memories/:memoryId, against a store that holds one email   *)
(* memory of u1.  A handler runs from one await to the next; between two   *)
(* awaits of one handler the other handlers may step.                      *)
(***************************************************************************)
MaxClients == 2

\* Two bodies with different contents, both valid.
ConcurrentBodies ==
  {[json |-> TRUE, isString |-> TRUE, content |-> <<c>>] : c \in {"n", "m"}}

CreatedEmail == CHOOSE email \in Emails : ValidEmailBody([json |-> TRUE, email |-> email])

\* The state after POST /u1/emails of CreatedEmail succeeded on an empty store.
InitConcurrent ==
  /\ memories = storeMemoryInD1({}, TextOf(CreatedEmail), "u1", 1)
  /\ vectors = VecUpsert({}, "u1", 1, TextOf(CreatedEmail))
  /\ emails = insertEmail({}, CreatedEmail, "u1", 1)
  /\ nextId = 2
  /\ reqs = [s \in 1..MaxClients |-> Idle]
  /\ dbInitialized = TRUE
  /\ schema = FullSchema

NextConcurrent ==
  \/ \E s \in DOMAIN reqs : UpdateMemoryD1From(s, ConcurrentBodies)
  \/ \E s \in DOMAIN reqs : UpdateMemoryVector(s)
  \/ \E s \in DOMAIN reqs : Reply(s)

SpecConcurrent == InitConcurrent /\ [][NextConcurrent]_vars

\* C17: each store on its own is last-writer-wins and no update waits for or
\* rejects another: an update whose UPDATE changed a row leaves its own
\* content in memories whatever the other requests are doing, its upsert
\* leaves its own content in the index, and it is answered with success.
\* (The divergent final state this admits is C17_Witness.)
C17_LastWriterWins ==
  [][\A s \in DOMAIN reqs :
       /\ Free(s) /\ reqs'[s].op = "updateMemory" /\ reqs'[s].pc = "updateMemoryVector"
            => \E m \in memories' :
                 /\ m.id = reqs'[s].memoryId /\ m.userId = reqs'[s].userId
                 /\ m.content = reqs'[s].content
       /\ reqs[s].pc = "updateMemoryVector" /\ Done(reqs'[s])
            => /\ reqs'[s].status = 200
               /\ reqs'[s].threw = ""
                    => \E v \in vectors' :
                         /\ v.id = reqs[s].memoryId /\ v.namespace = reqs[s].userId
                         /\ v.content = reqs[s].content]_vars

\* Two updates of the same memory, with different contents, both answered
\* with success and neither with a failed call: memories holds the content
\* of one and the index the content of the other.
C17_Witness ==
  \E s, t \in DOMAIN reqs :
    /\ Answered(s, "updateMemory") /\ reqs[s].status = 200 /\ reqs[s].threw = ""
    /\ Answered(t, "updateMemory") /\ reqs[t].status = 200 /\ reqs[t].threw = ""
    /\ reqs[s].memoryId = reqs[t].memoryId /\ reqs[s].userId = reqs[t].userId
    /\ reqs[s].content # reqs[t].content
    /\ \E m \in memories :
         /\ m.id = reqs[s].memoryId /\ m.userId = reqs[s].userId
         /\ m.content = reqs[s].content
    /\ \E v \in vectors :
         /\ v.id = reqs[t].memoryId /\ v.namespace = reqs[t].userId
         /\ v.content = reqs[t].content

(***************************************************************************)
(* The initialization middleware: app.use("*") checks the latch, awaits    *)
(* initializeDatabase, sets the latch and calls next().  initializeDatabase *)
(* awaits one D1 statement after the other; a request is at the statement  *)
(* it awaits, and other requests step between two statements.              *)
(***************************************************************************)
MsgDuplicateColumn == <<"duplicate", "column", "name">>

\* The statement initializeDatabase issues after the column check, given
\* the columns PRAGMA table_info(emails) listed.
AfterTableInfo(columns) ==
  IF "messageId" \notin columns THEN "alterMessageId"
  ELSE IF "inReplyTo" \notin columns THEN "alterInReplyTo"
  ELSE IndexNames[1]

\* The statement after ALTER TABLE emails ADD COLUMN messageId.
AfterAlterMessageId(columns) ==
  IF "inReplyTo" \notin columns THEN "alterInReplyTo" ELSE IndexNames[1]

\* initializeDatabase rethrows, the middleware logs and calls next(): the
\* latch stays as it is.
InitFailed(r, error) == [Swallow(r) EXCEPT !.pc = "next", !.error = error]

\* The latch is found unset; CREATE TABLE IF NOT EXISTS memories resolves or
\* throws.
InitCreateMemories(s) ==
  /\ reqs[s].pc = "idle" /\ ~dbInitialized
  /\ \E ok \in BOOLEAN :
       LET r == Called([Idle EXCEPT !.op = "initializeDatabase"], "createMemories") IN
       IF ok
       THEN /\ schema' = [schema EXCEPT !.tables = @ \cup {"memories"}]
            /\ reqs' = [reqs EXCEPT ![s] = Called(r, "createEmails")]
       ELSE /\ schema' = schema
            /\ reqs' = [reqs EXCEPT ![s] = InitFailed(r, MsgD1)]
  /\ UNCHANGED <<memories, emails, vectors, nextId, dbInitialized>>

\* CREATE TABLE IF NOT EXISTS emails (..., messageId TEXT, inReplyTo TEXT, ...)
InitCreateEmails(s) ==
  /\ reqs[s].op = "initializeDatabase" /\ reqs[s].pc = "createEmails"
  /\ \E ok \in BOOLEAN :
       IF ok
       THEN /\ schema' = IF "emails" \in schema.tables THEN schema
                         ELSE [schema EXCEPT !.tables = @ \cup {"emails"},
                                             !.columns = OptionalColumns]
            /\ reqs' = [reqs EXCEPT ![s] = Called(@, "tableInfo")]
       ELSE /\ schema' = schema
            /\ reqs' = [reqs EXCEPT ![s] = InitFailed(@, MsgD1)]
  /\ UNCHANGED <<memories, emails, vectors, nextId, dbInitialized>>

\* PRAGMA table_info(emails): the columns are read, and the first statement
\* they call for is issued.
InitTableInfo(s) ==
  /\ reqs[s].op = "initializeDatabase" /\ reqs[s].pc = "tableInfo"
  /\ \E ok \in BOOLEAN :
       IF ok
       THEN reqs' = [reqs EXCEPT ![s] =
              Called([@ EXCEPT !.rows = schema.columns], AfterTableInfo(schema.columns))]
       ELSE reqs' = [reqs EXCEPT ![s] = InitFailed(@, MsgD1)]
  /\ UNCHANGED <<memories, emails, vectors, nextId, dbInitialized, schema>>

\* ALTER TABLE emails ADD COLUMN messageId / inReplyTo: SQLite rejects the
\* statement when the table has the column.
InitAlter(s) ==
  /\ reqs[s].op = "initializeDatabase"
  /\ reqs[s].pc \in {"alterMessageId", "alterInReplyTo"}
  /\ \E ok \in BOOLEAN :
       LET r == reqs[s]
           column == IF r.pc = "alterMessageId" THEN "messageId" ELSE "inReplyTo"
           after == IF r.pc = "alterMessageId" THEN AfterAlterMessageId(r.rows)
                    ELSE IndexNames[1]
       IN IF column \in schema.columns
          THEN /\ schema' = schema
               /\ reqs' = [reqs EXCEPT ![s] = InitFailed(r, MsgDuplicateColumn)]
          ELSE IF ok
          THEN /\ schema' = [schema EXCEPT !.columns = @ \cup {column}]
               /\ reqs' = [reqs EXCEPT ![s] = Called(r, after)]
          ELSE /\ schema' = schema
               /\ reqs' = [reqs EXCEPT ![s] = InitFailed(r, MsgD1)]
  /\ UNCHANGED <<memories, emails, vectors, nextId, dbInitialized>>

\* Mutation of InitCreateIndex: the latch is set when the statement threw too.
InitCreateIndexLatchAlways(s) ==
  /\ reqs[s].op = "initializeDatabase"
  /\ \E i \in DOMAIN IndexNames, ok \in BOOLEAN :
       /\ reqs[s].pc = IndexNames[i]
       /\ IF ~ok
          THEN /\ schema' = schema
               /\ dbInitialized' = TRUE
               /\ reqs' = [reqs EXCEPT ![s] = InitFailed(@, MsgD1)]
          ELSE /\ schema' = [schema EXCEPT !.indexes = @ \cup {IndexNames[i]}]
               /\ IF i < Len(IndexNames)
                  THEN /\ dbInitialized' = dbInitialized
                       /\ reqs' = [reqs EXCEPT ![s] = Called(@, IndexNames[i + 1])]
                  ELSE /\ dbInitialized' = TRUE
                       /\ reqs' = [reqs EXCEPT ![s] = [@ EXCEPT !.pc = "next"]]
  /\ UNCHANGED <<memories, emails, vectors, nextId>>

\* CREATE INDEX IF NOT EXISTS, four times; after the last one
\* initializeDatabase returns and the middleware sets the latch.
InitCreateIndex(s) ==
  /\ reqs[s].op = "initializeDatabase"
  /\ \E i \in DOMAIN IndexNames, ok \in BOOLEAN :
       /\ reqs[s].pc = IndexNames[i]
       /\ IF ~ok
          THEN /\ schema' = schema
               /\ dbInitialized' = dbInitialized
               /\ reqs' = [reqs EXCEPT ![s] = InitFailed(@, MsgD1)]
          ELSE /\ schema' = [schema EXCEPT !.indexes = @ \cup {IndexNames[i]}]
               /\ IF i < Len(IndexNames)
                  THEN /\ dbInitialized' = dbInitialized
                       /\ reqs' = [reqs EXCEPT ![s] = Called(@, IndexNames[i + 1])]
                  ELSE /\ dbInitialized' = TRUE
                       /\ reqs' = [reqs EXCEPT ![s] = [@ EXCEPT !.pc = "next"]]
  /\ UNCHANGED <<memories, emails, vectors, nextId>>

\* The schemas a database can have when an isolate starts: none, the one of
\* a version without emails, one of an older version whose emails table
\* lacks optional columns (with or without indexes), or the current one.
Schemas ==
  {sch \in [tables : {{}, {"memories"}, {"memories", "emails"}},
            columns : SUBSET OptionalColumns,
            indexes : {{}, FullSchema.indexes}] :
     "emails" \notin sch.tables => sch.columns = {} /\ sch.indexes = {}}

\* An isolate starts: the latch is unset, the database has one of Schemas
\* and, when it has both tables, the rows of one email created earlier.
InitIsolate ==
  /\ dbInitialized = FALSE
  /\ schema \in Schemas
  /\ memories = IF schema.tables = FullSchema.tables
                THEN storeMemoryInD1({}, TextOf(CreatedEmail), "u1", 1) ELSE {}
  /\ emails = IF schema.tables = FullSchema.tables
              THEN insertEmail({}, CreatedEmail, "u1", 1) ELSE {}
  /\ vectors = IF schema.tables = FullSchema.tables
               THEN VecUpsert({}, "u1", 1, TextOf(CreatedEmail)) ELSE {}
  /\ nextId = 2
  /\ reqs = [s \in 1..MaxClients |-> Idle]

NextIsolate ==
  \/ \E s \in DOMAIN reqs : InitCreateMemories(s)
  \/ \E s \in DOMAIN reqs : InitCreateEmails(s)
  \/ \E s \in DOMAIN reqs : InitTableInfo(s)
  \/ \E s \in DOMAIN reqs : InitAlter(s)
  \/ \E s \in DOMAIN reqs : InitCreateIndex(s)
  \/ \E s \in DOMAIN reqs : ListMemories(s)
  \/ \E s \in DOMAIN reqs : Reply(s)

SpecIsolate == InitIsolate /\ [][NextIsolate]_vars

\* The request of slot s is inside initializeDatabase.
Initializing(s) == reqs[s].op = "initializeDatabase" /\ reqs[s].pc # "next"

\* The run of initializeDatabase of slot s has ended.
InitEnded(s) == reqs[s].op = "initializeDatabase" /\ reqs[s].pc = "next"

\* C18: however the runs of initializeDatabase interleave, a run ends with
\* an error only if D1 failed one of its statements, and a run that ended
\* without error leaves the schema a single run leaves.
C18_ConcurrentInitSafe ==
  \A s \in DOMAIN reqs :
    InitEnded(s)
      => /\ reqs[s].threw # "" => reqs[s].error = MsgD1
         /\ reqs[s].threw = "" => schema = FullSchema

\* C19: at most one request is inside initializeDatabase at a time.
C19_LatchGuarded ==
  Cardinality({s \in DOMAIN reqs : Initializing(s)}) <= 1

(***************************************************************************)
(* A create retried.                                                       *)
(***************************************************************************)
\* The rows, entries and records of ids other than memoryId.
Others(memoryId, mem, vs, em) ==
  <<{m \in mem : m.id # memoryId}, {v \in vs : v.id # memoryId},
    {e \in em : e.id # memoryId}>>

\* C20: every accepted create, a retry of a failed one included, mints an
\* id that no row, entry or record has, and when its INSERT resolves it adds
\* a row of that id to memories, whether or not the owner already has a row
\* of the same content; no step of a create changes or removes what is
\* stored under another id.  (The listing with two memories of one content
\* is C20_Witness.)
C20_RetryMintsFreshId ==
  [][\A s \in DOMAIN reqs :
       LET r == reqs'[s] IN
       /\ Free(s) /\ r.op = "storeEmail" /\ r.calls # {}
            => /\ Others(r.memoryId, memories, vectors, emails)
                    = <<memories, vectors, emails>>
               /\ r.pc = "storeMemory"
                    => memories' = memories \cup
                         {[id |-> r.memoryId, userId |-> r.userId, content |-> r.content]}
       /\ r.op = "storeEmail"
            => Others(r.memoryId, memories', vectors', emails')
                 = Others(r.memoryId, memories, vectors, emails)]_vars

\* A create answered with success while the owner's listing holds a second
\* memory of the same content under another id, left by a create that failed
\* after its content row was committed: it has no vector and no emails row.
C20_Witness ==
  \E s \in DOMAIN reqs :
    /\ Answered(s, "storeEmail") /\ reqs[s].status = 200
    /\ \E m \in getAllMemoriesFromD1(memories, reqs[s].userId) :
         /\ m.id # reqs[s].memoryId /\ m.content = reqs[s].content
         /\ [id |-> reqs[s].memoryId, content |-> reqs[s].content]
              \in getAllMemoriesFromD1(memories, reqs[s].userId)
         /\ ~HasVector(vectors, m.id, reqs[s].userId)
         /\ ~HasEmailRow(emails, m.id, reqs[s].userId)

(***************************************************************************)
(* The latch.                                                              *)
(***************************************************************************)
\* C21: the latch is set only in a step in which a run of initializeDatabase
\* ends without error, and then the schema is complete; a run that ends
\* with an error leaves the latch as it is and its request goes on to its
\* handler; a request that arrives while the latch is unset runs
\* initializeDatabase; once set, the latch stays set and no request that
\* arrives afterwards runs initializeDatabase.
C21_LatchInvariant ==
  [][/\ dbInitialized' /\ ~dbInitialized
          => /\ \E s \in DOMAIN reqs :
                  Initializing(s) /\ InitEnded(s)' /\ reqs'[s].threw = ""
             /\ schema' = FullSchema
     /\ dbInitialized => dbInitialized'
     /\ \A s \in DOMAIN reqs :
          /\ reqs'[s].op = "initializeDatabase" /\ reqs'[s] # reqs[s]
             /\ reqs'[s].threw # ""
               => InitEnded(s)' /\ dbInitialized' = dbInitialized
          /\ InitEnded(s) /\ reqs'[s] # reqs[s]
               => reqs'[s].op = "listMemories"
          /\ reqs[s].pc = "idle" /\ reqs'[s] # reqs[s]
               => (reqs'[s].op = "initializeDatabase" <=> ~dbInitialized)]_vars

\* The latch is set by one run while another request, whose run ended with
\* an error, is on its way to its handler.
C21_Witness ==
  /\ dbInitialized
  /\ \E s, t \in DOMAIN reqs :
       /\ InitEnded(s) /\ reqs[s].threw # ""
       /\ InitEnded(t) /\ reqs[t].threw = ""

(***************************************************************************)
(* Write isolation between owners.                                         *)
(***************************************************************************)
\* The rows of memories and of emails whose owner is not userId.
RowsOfOthers(userId, mem, em) ==
  <<{m \in mem : m.userId # userId}, {e \in em : e.userId # userId}>>

\* C22: no step of an update, of a memory delete or of an email delete made
\* for an owner changes or removes a row of memories or of emails that
\* belongs to another owner, whatever id the request names.
C22_WriteIsolation ==
  [][\A s \in DOMAIN reqs :
       reqs'[s].op \in {"updateMemory", "deleteMemory", "deleteEmail"}
         => RowsOfOthers(reqs'[s].userId, memories', emails')
              = RowsOfOthers(reqs'[s].userId, memories, emails)]_vars

\* An email delete answered with success for an id whose content row and
\* structured record belong to another owner, both still there.
C22_Witness ==
  \E s \in DOMAIN reqs :
    /\ Answered(s, "deleteEmail") /\ reqs[s].status = 200
    /\ \E e \in emails :
         /\ e.memoryId = reqs[s].memoryId /\ e.userId # reqs[s].userId
         /\ HasContentRow(memories, e.memoryId, e.userId)

====
